---- MODULE Spec2Model ----
(***************************************************************************)
(* Isolation game-playing agents of game_agent.py: the evaluation          *)
(* functions custom_score / custom_score_2, MinimaxPlayer (fixed-depth     *)
(* minimax) and AlphaBetaPlayer (iterative-deepening alpha-beta), run      *)
(* against a time_left() callable.                                         *)
(*                                                                         *)
(* The isolation.Board class is an external collaborator of the agents     *)
(* (it is not part of game_agent.py).  It is modelled here as the knight-  *)
(* move Isolation board the agents' docstrings and custom_score_3 assume:  *)
(* each player occupies one cell, a visited cell stays blocked, and        *)
(* get_legal_moves() enumerates the knight offsets in one fixed order.     *)
(***************************************************************************)
EXTENDS Integers, Sequences, FiniteSets, TLC

\* ------------------------------------------------------------------ bounds
\* Board geometry: Height rows (game.height) of Width cells (game.width).
Width == 3
Height == 3
\* Plies played from the initial placement before get_move is observed.
MaxPlies == 2
\* Largest search_depth a MinimaxPlayer is constructed with.
MaxDepth == 2
\* The iterative-deepening loop of AlphaBetaPlayer is followed up to this depth.
MaxLayers == 4
\* Longest prefix of time_left() answers above the threshold.
MaxAbove == 6

\* No get_move followed here calls time_left() more often than this.
MaxCalls == 200

\* ------------------------------------------------------- program constants
\* IsolationPlayer.__init__(..., timeout=20.)
TIMER_THRESHOLD == 20
\* IsolationPlayer.__init__(search_depth=3, ...)
DefaultSearchDepth == 3
\* custom_score: if (game_phase<15)
LateGameBlanks == 15
\* float("inf") and float("-inf"): every finite score of the model is far
\* inside (NegInf, PosInf), so <, min and max agree with IEEE infinities.
PosInf == 1000000
NegInf == 0 - PosInf
\* the (-1,-1) no-move sentinel
NoMove == <<0 - 1, 0 - 1>>

Min2(a, b) == IF a <= b THEN a ELSE b
Max2(a, b) == IF a >= b THEN a ELSE b

\* ------------------------------------------------------------ isolation.Board
Cells == (0 .. Height - 1) \X (0 .. Width - 1)

\* knight offsets, in the order the board enumerates them
directions ==
    << <<0 - 2, 0 - 1>>, <<0 - 2, 1>>, <<0 - 1, 0 - 2>>, <<0 - 1, 2>>,
       <<1, 0 - 2>>, <<1, 2>>, <<2, 0 - 1>>, <<2, 1>> >>

\* game.get_opponent(player)
get_opponent(player) == 3 - player

\* game.get_blank_spaces()
get_blank_spaces(game) == Cells \ game.blocked

\* game.get_legal_moves(player): the knight moves of `player` onto blank cells
get_legal_moves_of(game, player) ==
    LET at == game.loc[player]
        target(i) == <<at[1] + directions[i][1], at[2] + directions[i][2]>>
        all == [i \in 1 .. Len(directions) |-> target(i)]
        legal(c) == c \in Cells /\ c \notin game.blocked
    IN  SelectSeq(all, legal)

\* game.get_legal_moves(): the moves of the active player
get_legal_moves(game) == get_legal_moves_of(game, game.active)

\* game.forecast_move(move): a new board on which the ACTIVE player has moved
forecast_move(game, move) ==
    [loc |-> [game.loc EXCEPT ![game.active] = move],
     blocked |-> game.blocked \cup {move},
     active |-> get_opponent(game.active)]

\* game.is_loser(player) / game.is_winner(player)
is_loser(game, player) ==
    player = game.active /\ get_legal_moves(game) = <<>>
is_winner(game, player) ==
    player = get_opponent(game.active) /\ get_legal_moves(game) = <<>>

\* ---------------------------------------------------------- evaluation
RECURSIVE longestPath(_, _, _, _)
\* custom_score.longestPath(player, game, path=0, longest=0).  The recursive
\* calls are made for every move, but Python discards what they return and
\* `longest` is a local integer: the value returned is the local `longest`.
longestPath(player, game, path, longest) ==
    LET moves == get_legal_moves_of(game, player)
        longest1 == IF path > longest THEN path ELSE longest
        discarded == [i \in 1 .. Len(moves) |->
                        longestPath(player, forecast_move(game, moves[i]),
                                    path + 1, longest1)]
    IN  longest1

\* own moves - 2 * opponent moves
MobilityDiff(game, player) ==
    Len(get_legal_moves_of(game, player))
      - 2 * Len(get_legal_moves_of(game, get_opponent(player)))

custom_score(game, player) ==
    IF is_loser(game, player) THEN NegInf
    ELSE IF is_winner(game, player) THEN PosInf
    ELSE IF Cardinality(get_blank_spaces(game)) < LateGameBlanks
         THEN longestPath(player, game, 0, 0)
                - longestPath(get_opponent(player), game, 0, 0)
         ELSE MobilityDiff(game, player)

custom_score_2(game, player) ==
    IF is_loser(game, player) THEN NegInf
    ELSE IF is_winner(game, player) THEN PosInf
    ELSE MobilityDiff(game, player)

\* self.score(game, self) for the configured score_fn
Score(fn, game, player) ==
    IF fn = "custom_score" THEN custom_score(game, player)
    ELSE custom_score_2(game, player)

\* ------------------------------------------------------------ time_left()
\* A time_left callable, by the answers it gives to successive calls: `a`
\* answers above the threshold, then `e` answers equal to it, then `tail`
\* for ever (below the threshold, or above it: a budget that never runs out,
\* or one that is not monotonic when e > 0).
Timers ==
    {tl \in [a : 0 .. MaxAbove, e : 0 .. 1,
             tail : {TIMER_THRESHOLD - 1, TIMER_THRESHOLD + 1}] :
        tl.tail > TIMER_THRESHOLD => (tl.e = 1 \/ tl.a = 0)}

\* the answer of the k-th call (k = 0, 1, ...) of self.time_left()
TimeLeft(tl, k) ==
    IF k < tl.a THEN TIMER_THRESHOLD + 1
    ELSE IF k < tl.a + tl.e THEN TIMER_THRESHOLD
    ELSE tl.tail

Unlimited == [a |-> 0, e |-> 0, tail |-> TIMER_THRESHOLD + 1]

\* ------------------------------------------------------------ search state
\* What a search threads through its calls: k, the number of time_left()
\* calls made so far, and log, the calls made on the collaborators in order:
\*   "head"      time_left() at the head of the iterative-deepening loop
\*   "time"      time_left() inside min_value / max_value at node `at`
\*   "score"     self.score(game, self) at node `at`
\*   "forecast"  game.forecast_move(m) made by node `at`
\*   "layer"     a call of self.alphabeta / self.minimax with depth `layer`
\* A node is named by the moves leading to it from the root.
Ev(ev, layer, at, t) == [ev |-> ev, layer |-> layer, at |-> at, t |-> t]

Note(env, st, ev, at) ==
    [k |-> st.k, log |-> Append(st.log, Ev(ev, env.depth, at, 0))]

\* if self.time_left() < self.TIMER_THRESHOLD: raise SearchTimeout()
Query(env, st, at) ==
    LET t == TimeLeft(env.tl, st.k)
    IN  [t |-> t,
         st |-> [k |-> st.k + 1,
                 log |-> Append(st.log, Ev("time", env.depth, at, t))]]

\* the outcome of a min_value / max_value call: a value, or SearchTimeout
Value(v, st) == [to |-> FALSE, v |-> v, k |-> st.k, log |-> st.log]
Raise(st) == [to |-> TRUE, v |-> 0, k |-> st.k, log |-> st.log]
\* the outcome of a minimax / alphabeta call: a move, or SearchTimeout
\* (move then holds the best move of the aborted search so far)
Found(to, move, st) == [to |-> to, move |-> move, k |-> st.k, log |-> st.log]
After(r) == [k |-> r.k, log |-> r.log]

RECURSIVE mm_min_value(_, _, _, _, _), mm_max_value(_, _, _, _, _)
RECURSIVE mm_min_loop(_, _, _, _, _, _, _), mm_max_loop(_, _, _, _, _, _, _)
RECURSIVE mm_root(_, _, _, _, _, _)
RECURSIVE ab_min_value(_, _, _, _, _, _, _), ab_max_value(_, _, _, _, _, _, _)
RECURSIVE ab_min_loop(_, _, _, _, _, _, _, _, _)
RECURSIVE ab_max_loop(_, _, _, _, _, _, _, _, _)
RECURSIVE ab_root(_, _, _, _, _, _, _, _)

\* ------------------------------------------------------ MinimaxPlayer.minimax
\* env: [tl, fn, me, depth] = self.time_left, self.score, self, depth

\* min_value(game, traversed_depth)
mm_min_value(env, game, traversed_depth, st, at) ==
    LET q == Query(env, st, at)
    IN  IF q.t < TIMER_THRESHOLD THEN Raise(q.st)
        ELSE IF traversed_depth = env.depth
             THEN Value(Score(env.fn, game, env.me),
                        Note(env, q.st, "score", at))
        ELSE mm_min_loop(env, game, traversed_depth + 1, PosInf, 1, q.st, at)

\* for m in game.get_legal_moves(): ... v = min(v, max_value(...))
mm_min_loop(env, game, traversed_depth, v, i, st, at) ==
    LET moves == get_legal_moves(game)
    IN  IF i > Len(moves) THEN Value(v, st)
        ELSE LET q == Query(env, st, at)
             IN  IF q.t < TIMER_THRESHOLD THEN Raise(q.st)
                 ELSE LET r == mm_max_value(env,
                                   forecast_move(game, moves[i]),
                                   traversed_depth,
                                   Note(env, q.st, "forecast", at),
                                   Append(at, moves[i]))
                      IN  IF r.to THEN r
                          ELSE mm_min_loop(env, game, traversed_depth,
                                           Min2(v, r.v), i + 1, After(r), at)

\* max_value(game, traversed_depth)
mm_max_value(env, game, traversed_depth, st, at) ==
    LET q == Query(env, st, at)
    IN  IF q.t < TIMER_THRESHOLD THEN Raise(q.st)
        ELSE IF traversed_depth = env.depth
             THEN Value(Score(env.fn, game, env.me),
                        Note(env, q.st, "score", at))
        ELSE mm_max_loop(env, game, traversed_depth + 1, NegInf, 1, q.st, at)

\* for m in game.get_legal_moves(): ... v = max(v, min_value(...))
mm_max_loop(env, game, traversed_depth, v, i, st, at) ==
    LET moves == get_legal_moves(game)
    IN  IF i > Len(moves) THEN Value(v, st)
        ELSE LET q == Query(env, st, at)
             IN  IF q.t < TIMER_THRESHOLD THEN Raise(q.st)
                 ELSE LET r == mm_min_value(env,
                                   forecast_move(game, moves[i]),
                                   traversed_depth,
                                   Note(env, q.st, "forecast", at),
                                   Append(at, moves[i]))
                      IN  IF r.to THEN r
                          ELSE mm_max_loop(env, game, traversed_depth,
                                           Max2(v, r.v), i + 1, After(r), at)

\* max(game.get_legal_moves(), key=lambda m: min_value(game.forecast_move(m)))
\* Python's max keeps the first element and replaces it only by an element
\* whose key is strictly greater.
mm_root(env, game, i, best_val, best_move, st) ==
    LET moves == get_legal_moves(game)
    IN  IF i > Len(moves) THEN Found(FALSE, best_move, st)
        ELSE LET r == mm_min_value(env, forecast_move(game, moves[i]), 1,
                                   Note(env, st, "forecast", <<>>),
                                   <<moves[i]>>)
             IN  IF r.to THEN Found(TRUE, best_move, After(r))
                 ELSE IF i = 1 \/ r.v > best_val
                      THEN mm_root(env, game, i + 1, r.v, moves[i], After(r))
                      ELSE mm_root(env, game, i + 1, best_val, best_move,
                                   After(r))

\* self.minimax(game, depth)
minimax(env, game, st) ==
    mm_root(env, game, 1, NegInf, NoMove, Note(env, st, "layer", <<>>))

\* ---------------------------------------------------- AlphaBetaPlayer.alphabeta
\* min_value(game, depth, alpha, beta)
ab_min_value(env, game, depth, alpha, beta, st, at) ==
    LET q == Query(env, st, at)
    IN  IF q.t < TIMER_THRESHOLD THEN Raise(q.st)
        ELSE IF depth = 0 \/ get_legal_moves(game) = <<>>
             THEN Value(Score(env.fn, game, env.me),
                        Note(env, q.st, "score", at))
        ELSE ab_min_loop(env, game, depth, alpha, beta, PosInf, 1, q.st, at)

\* ab_min_loop with a frame that catches SearchTimeout and goes on with the
\* value it has
ab_min_loop_catches(env, game, depth, alpha, beta, v, i, st, at) ==
    LET moves == get_legal_moves(game)
    IN  IF i > Len(moves) THEN Value(v, st)
        ELSE LET r == ab_max_value(env, forecast_move(game, moves[i]),
                                   depth - 1, alpha, beta,
                                   Note(env, st, "forecast", at),
                                   Append(at, moves[i]))
                 v1 == Min2(v, r.v)
             IN  IF r.to
                 THEN ab_min_loop(env, game, depth, alpha, beta, v, i + 1,
                                  After(r), at)
                 ELSE IF v1 <= alpha THEN Value(v1, After(r))
                 ELSE ab_min_loop(env, game, depth, alpha, Min2(beta, v1),
                                  v1, i + 1, After(r), at)

\* for m in game.get_legal_moves(): v = min(v, max_value(...));
\*     if v<=alpha: return v;  beta = min(beta,v)
ab_min_loop(env, game, depth, alpha, beta, v, i, st, at) ==
    LET moves == get_legal_moves(game)
    IN  IF i > Len(moves) THEN Value(v, st)
        ELSE LET r == ab_max_value(env, forecast_move(game, moves[i]),
                                   depth - 1, alpha, beta,
                                   Note(env, st, "forecast", at),
                                   Append(at, moves[i]))
                 v1 == Min2(v, r.v)
             IN  IF r.to THEN r
                 ELSE IF v1 <= alpha THEN Value(v1, After(r))
                 ELSE ab_min_loop(env, game, depth, alpha, Min2(beta, v1),
                                  v1, i + 1, After(r), at)

\* max_value(game, depth, alpha, beta)
ab_max_value(env, game, depth, alpha, beta, st, at) ==
    LET q == Query(env, st, at)
    IN  IF q.t < TIMER_THRESHOLD THEN Raise(q.st)
        ELSE IF depth = 0 \/ get_legal_moves(game) = <<>>
             THEN Value(Score(env.fn, game, env.me),
                        Note(env, q.st, "score", at))
        ELSE ab_max_loop(env, game, depth, alpha, beta, NegInf, 1, q.st, at)

\* for m in game.get_legal_moves(): v = max(v, min_value(...));
\*     if v>=beta: return v;  alpha = max(alpha,v)
ab_max_loop(env, game, depth, alpha, beta, v, i, st, at) ==
    LET moves == get_legal_moves(game)
    IN  IF i > Len(moves) THEN Value(v, st)
        ELSE LET r == ab_min_value(env, forecast_move(game, moves[i]),
                                   depth - 1, alpha, beta,
                                   Note(env, st, "forecast", at),
                                   Append(at, moves[i]))
                 v1 == Max2(v, r.v)
             IN  IF r.to THEN r
                 ELSE IF v1 >= beta THEN Value(v1, After(r))
                 ELSE ab_max_loop(env, game, depth, Max2(alpha, v1), beta,
                                  v1, i + 1, After(r), at)

\* best_val = float("-inf"); best_move = (-1,-1)
\* for move in game.get_legal_moves():
\*     v = min_value(game.forecast_move(move), depth - 1, alpha, beta)
\*     if v>best_val: best_val = v; best_move = move
\*     alpha=max(alpha, best_val)
ab_root(env, game, alpha, beta, best_val, best_move, i, st) ==
    LET moves == get_legal_moves(game)
    IN  IF i > Len(moves) THEN Found(FALSE, best_move, st)
        ELSE LET r == ab_min_value(env, forecast_move(game, moves[i]),
                                   env.depth - 1, alpha, beta,
                                   Note(env, st, "forecast", <<>>),
                                   <<moves[i]>>)
                 better == r.v > best_val
                 best_val1 == IF better THEN r.v ELSE best_val
                 best_move1 == IF better THEN moves[i] ELSE best_move
             IN  IF r.to THEN Found(TRUE, best_move, After(r))
                 ELSE ab_root(env, game, Max2(alpha, best_val1), beta,
                              best_val1, best_move1, i + 1, After(r))

\* self.alphabeta(game, depth)
alphabeta(env, game, st) ==
    ab_root(env, game, NegInf, PosInf, NegInf, NoMove, 1,
            Note(env, st, "layer", <<>>))

\* ------------------------------------------------------------------ state
VARIABLES
    board,         \* the game: [loc, blocked, active]
    plies,         \* moves applied to the board since the placement
    player,        \* the agent: [kind, search_depth, score_fn]
    pc,            \* "idle", "loop" (inside AlphaBetaPlayer.get_move), "done"
    time_left,     \* self.time_left, a member of Timers
    clock,         \* calls of self.time_left() made by the current get_move
    log,           \* calls made on the collaborators by the current get_move
    best_move,     \* get_move's local best_move
    last_move,     \* AlphaBetaPlayer.get_move's local last_move
    search_depth,  \* AlphaBetaPlayer.get_move's local search_depth
    raised,        \* SearchTimeout reached get_move's except clause
    result         \* the move get_move returned

vars == <<board, plies, player, pc, time_left, clock, log, best_move,
          last_move, search_depth, raised, result>>

\* the players placed on two distinct cells, player 1 to move
Placements ==
    {[loc |-> <<c1, c2>>, blocked |-> {c1, c2}, active |-> 1] :
        <<c1, c2>> \in {p \in Cells \X Cells : p[1] # p[2]}}

\* IsolationPlayer.__init__(search_depth, score_fn, timeout)
Players ==
    [kind : {"MinimaxPlayer"}, search_depth : 1 .. MaxDepth,
     score_fn : {"custom_score", "custom_score_2"}]
      \cup
    [kind : {"AlphaBetaPlayer"}, search_depth : {DefaultSearchDepth},
     score_fn : {"custom_score", "custom_score_2"}]

\* the arguments of the agent's calls for the game `board`, search depth d
Env(tl, d) ==
    [tl |-> tl, fn |-> player.score_fn, me |-> board.active, depth |-> d]

Fresh == [k |-> 0, log |-> <<>>]

Init ==
    /\ board \in Placements
    /\ plies = 0
    /\ player \in Players
    /\ pc = "idle"
    /\ time_left = Unlimited
    /\ clock = 0
    /\ log = <<>>
    /\ best_move = NoMove
    /\ last_move = NoMove
    /\ search_depth = 0
    /\ raised = FALSE
    /\ result = NoMove

\* the game driver applies a legal move of the active player
ApplyMove ==
    /\ pc = "idle"
    /\ plies < MaxPlies
    /\ \E i \in 1 .. Len(get_legal_moves(board)) :
          board' = forecast_move(board, get_legal_moves(board)[i])
    /\ plies' = plies + 1
    /\ UNCHANGED <<player, pc, time_left, clock, log, best_move, last_move,
                   search_depth, raised, result>>

\* MinimaxGetMove returning, on SearchTimeout, the best move of the aborted
\* search instead of the fallback recorded before it
MinimaxGetMove_NoFallback ==
    /\ pc = "idle"
    /\ player.kind = "MinimaxPlayer"
    /\ \E tl \in Timers :
        /\ time_left' = tl
        /\ IF get_legal_moves(board) = <<>>
           THEN /\ result' = NoMove
                /\ UNCHANGED best_move
                /\ raised' = FALSE
                /\ clock' = 0
                /\ log' = <<>>
           ELSE \E r \in {minimax(Env(tl, player.search_depth), board,
                                  Fresh)} :
                /\ best_move' = get_legal_moves(board)[1]
                /\ result' = r.move
                /\ raised' = r.to
                /\ clock' = r.k
                /\ log' = r.log
    /\ pc' = "done"
    /\ UNCHANGED <<board, plies, player, last_move, search_depth>>

\* MinimaxPlayer.get_move(game, time_left)
MinimaxGetMove ==
    /\ pc = "idle"
    /\ player.kind = "MinimaxPlayer"
    /\ \E tl \in Timers :
        /\ time_left' = tl
        /\ IF get_legal_moves(board) = <<>>
           THEN /\ result' = NoMove
                /\ UNCHANGED best_move
                /\ raised' = FALSE
                /\ clock' = 0
                /\ log' = <<>>
           ELSE \E r \in {minimax(Env(tl, player.search_depth), board,
                                  Fresh)} :
                /\ best_move' = get_legal_moves(board)[1]
                /\ result' = IF r.to THEN get_legal_moves(board)[1]
                                     ELSE r.move
                /\ raised' = r.to
                /\ clock' = r.k
                /\ log' = r.log
    /\ pc' = "done"
    /\ UNCHANGED <<board, plies, player, last_move, search_depth>>

\* AlphaBetaGetMove entering its loop without looking at the legal moves
AlphaBetaGetMove_NoEmptyCheck ==
    /\ pc = "idle"
    /\ player.kind = "AlphaBetaPlayer"
    /\ \E tl \in Timers : time_left' = tl
    /\ clock' = 0
    /\ log' = <<>>
    /\ raised' = FALSE
    /\ best_move' = IF get_legal_moves(board) = <<>> THEN NoMove
                    ELSE get_legal_moves(board)[1]
    /\ search_depth' = 1
    /\ pc' = "loop"
    /\ UNCHANGED <<board, plies, player, last_move, result>>

\* AlphaBetaPlayer.get_move(game, time_left), up to the try statement
AlphaBetaGetMove ==
    /\ pc = "idle"
    /\ player.kind = "AlphaBetaPlayer"
    /\ \E tl \in Timers : time_left' = tl
    /\ clock' = 0
    /\ log' = <<>>
    /\ raised' = FALSE
    /\ IF get_legal_moves(board) = <<>>
       THEN /\ result' = NoMove
            /\ pc' = "done"
            /\ UNCHANGED <<best_move, search_depth>>
       ELSE /\ best_move' = get_legal_moves(board)[1]
            /\ search_depth' = 1
            /\ pc' = "loop"
            /\ UNCHANGED result
    /\ UNCHANGED <<board, plies, player, last_move>>

\* AlphaBetaIterate returning, on SearchTimeout, the best move of the aborted
\* layer
AlphaBetaIterate_PartialBest ==
    /\ pc = "loop"
    /\ search_depth <= MaxLayers
    /\ LET t == TimeLeft(time_left, clock)
           env == Env(time_left, search_depth)
           st == [k |-> clock + 1,
                  log |-> Append(log, Ev("head", search_depth, <<>>, t))]
       IN  IF t > TIMER_THRESHOLD
           THEN \E r \in {alphabeta(env, board, st)} :
                /\ last_move' = best_move
                /\ clock' = r.k
                /\ log' = r.log
                /\ raised' = r.to
                /\ IF r.to
                   THEN /\ best_move' = r.move
                        /\ result' = r.move
                        /\ pc' = "done"
                        /\ UNCHANGED search_depth
                   ELSE /\ best_move' = r.move
                        /\ search_depth' = search_depth + 1
                        /\ UNCHANGED <<pc, result>>
           ELSE /\ clock' = st.k
                /\ log' = st.log
                /\ result' = best_move
                /\ pc' = "done"
                /\ UNCHANGED <<best_move, last_move, search_depth, raised>>
    /\ UNCHANGED <<board, plies, player, time_left>>

\* AlphaBetaIterate with the loop condition time_left() >= TIMER_THRESHOLD
AlphaBetaIterate_LooseHead ==
    /\ pc = "loop"
    /\ search_depth <= MaxLayers
    /\ LET t == TimeLeft(time_left, clock)
           env == Env(time_left, search_depth)
           st == [k |-> clock + 1,
                  log |-> Append(log, Ev("head", search_depth, <<>>, t))]
       IN  IF t >= TIMER_THRESHOLD
           THEN \E r \in {alphabeta(env, board, st)} :
                /\ last_move' = best_move
                /\ clock' = r.k
                /\ log' = r.log
                /\ raised' = r.to
                /\ IF r.to
                   THEN /\ best_move' = last_move'
                        /\ result' = last_move'
                        /\ pc' = "done"
                        /\ UNCHANGED search_depth
                   ELSE /\ best_move' = r.move
                        /\ search_depth' = search_depth + 1
                        /\ UNCHANGED <<pc, result>>
           ELSE /\ clock' = st.k
                /\ log' = st.log
                /\ result' = best_move
                /\ pc' = "done"
                /\ UNCHANGED <<best_move, last_move, search_depth, raised>>
    /\ UNCHANGED <<board, plies, player, time_left>>

\* One evaluation of the loop condition of AlphaBetaPlayer.get_move and,
\* if it holds, one pass of the loop body (or the except clause).
AlphaBetaIterate ==
    /\ pc = "loop"
    /\ search_depth <= MaxLayers
    /\ LET t == TimeLeft(time_left, clock)
           env == Env(time_left, search_depth)
           st == [k |-> clock + 1,
                  log |-> Append(log, Ev("head", search_depth, <<>>, t))]
       IN  IF t > TIMER_THRESHOLD
           THEN \E r \in {alphabeta(env, board, st)} :
                /\ last_move' = best_move
                /\ clock' = r.k
                /\ log' = r.log
                /\ raised' = r.to
                /\ IF r.to
                   THEN /\ best_move' = last_move'
                        /\ result' = last_move'
                        /\ pc' = "done"
                        /\ UNCHANGED search_depth
                   ELSE /\ best_move' = r.move
                        /\ search_depth' = search_depth + 1
                        /\ UNCHANGED <<pc, result>>
           ELSE /\ clock' = st.k
                /\ log' = st.log
                /\ result' = best_move
                /\ pc' = "done"
                /\ UNCHANGED <<best_move, last_move, search_depth, raised>>
    /\ UNCHANGED <<board, plies, player, time_left>>

\* get_move has returned; the agent is ready for the next call
Return ==
    /\ pc = "done"
    /\ pc' = "idle"
    /\ clock' = 0
    /\ log' = <<>>
    /\ best_move' = NoMove
    /\ last_move' = NoMove
    /\ search_depth' = 0
    /\ raised' = FALSE
    /\ result' = NoMove
    /\ time_left' = Unlimited
    /\ UNCHANGED <<board, plies, player>>

Next ==
    \/ ApplyMove
    \/ MinimaxGetMove
    \/ AlphaBetaGetMove
    \/ AlphaBetaIterate
    \/ Return

Spec == Init /\ [][Next]_vars

\* AlphaBetaPlayer alone, with the loop of get_move scheduled.
InitAB == Init /\ player.kind = "AlphaBetaPlayer"

NextAB ==
    \/ ApplyMove
    \/ AlphaBetaGetMove
    \/ AlphaBetaIterate
    \/ Return

\* A pass of the loop of AlphaBetaPlayer.get_move, by what every pass does:
\* it evaluates the loop condition, one more call of time_left().  It is
\* possible whenever get_move is inside its loop.
LoopPass ==
    /\ pc = "loop"
    /\ search_depth <= MaxLayers
    /\ pc' \in {"loop", "done"}
    /\ clock' \in (clock + 1) .. (clock + MaxCalls)

\* The agent is sequential code: a loop pass that can be taken is taken.
LiveSpec == InitAB /\ [][NextAB]_vars /\ WF_clock(LoopPass)

\* ------------------------------------------------------------- reference
RootMoves == get_legal_moves(board)

InSeq(m, s) == \E i \in 1 .. Len(s) : s[i] = m

\* the move a search of depth d of the current game returns when the time
\* budget never interrupts it
CompletedAlphaBeta(d) == alphabeta(Env(Unlimited, d), board, Fresh).move
CompletedMinimax(d) == minimax(Env(Unlimited, d), board, Fresh).move

\* the exact depth-d minimax value of root move m: the value of the
\* minimizing layer below it, search uninterrupted and unpruned
BackedUp(m, d) ==
    mm_min_value(Env(Unlimited, d), forecast_move(board, m), 1, Fresh, <<m>>).v

\* the earliest root move, in legal-move order, of maximal backed-up value
FirstMaximal(d) ==
    LET best(i) == \A j \in 1 .. Len(RootMoves) :
                      BackedUp(RootMoves[j], d) <= BackedUp(RootMoves[i], d)
        first == CHOOSE i \in 1 .. Len(RootMoves) :
                    best(i) /\ \A j \in 1 .. i - 1 : ~best(j)
    IN  RootMoves[first]

\* the depth of the last search get_move completed (0: none)
CompletedDepth ==
    IF player.kind = "MinimaxPlayer"
    THEN (IF raised THEN 0 ELSE player.search_depth)
    ELSE search_depth - 1

Returned == pc = "done"

IsQuery(e) == e.ev = "time" \/ e.ev = "head"

\* the first time_left() call of the current get_move answered below the
\* threshold
FirstCheckBelow ==
    /\ \E i \in 1 .. Len(log) : IsQuery(log[i])
    /\ LET i == CHOOSE i \in 1 .. Len(log) :
                  IsQuery(log[i]) /\ \A j \in 1 .. i - 1 : ~IsQuery(log[j])
       IN  log[i].t < TIMER_THRESHOLD

RECURSIVE DeepestPath(_, _)
\* the greatest value `path` takes in the calls of longestPath(who, game)
\* makes: the depth of its exploration of every legal-move branch
DeepestPath(who, game) ==
    LET moves == get_legal_moves_of(game, who)
        below == {DeepestPath(who, forecast_move(game, moves[i])) :
                     i \in 1 .. Len(moves)}
    IN  IF moves = <<>> THEN 0
        ELSE 1 + CHOOSE d \in below : \A x \in below : x <= d

\* -------------------------------------------------------------- claims

\* C1: whenever the root state has a legal move, the move get_move returns
\* (either agent, any time budget) is one of game.get_legal_moves().
C1_ReturnsLegalMove ==
    (Returned /\ RootMoves # <<>>) => InSeq(result, RootMoves)

\* C2: when SearchTimeout aborts layer N+1 of AlphaBetaPlayer.get_move, the
\* move returned is the one the completed layer N returned (the first legal
\* move when N = 0).
C2_FallsBackToCompletedLayer ==
    (Returned /\ player.kind = "AlphaBetaPlayer" /\ raised) =>
        result = IF search_depth = 1 THEN RootMoves[1]
                 ELSE CompletedAlphaBeta(search_depth - 1)

\* a timeout inside layer N+1, N >= 1, where the layer aborted would have
\* chosen another move than layer N
C2_Witness ==
    /\ Returned /\ player.kind = "AlphaBetaPlayer" /\ raised
    /\ search_depth >= 2
    /\ CompletedAlphaBeta(search_depth) # result
    /\ InSeq(result, RootMoves)

\* C3: the move alphabeta(game, d) returns is a root move whose exact
\* depth-d minimax value equals that of the move minimax(game, d) returns.
C3_SameBackedUpValue ==
    (Returned /\ player.kind = "AlphaBetaPlayer" /\ ~raised
       /\ search_depth >= 2) =>
        /\ InSeq(result, RootMoves)
        /\ BackedUp(result, search_depth - 1)
             = BackedUp(CompletedMinimax(search_depth - 1), search_depth - 1)

\* C4: for a root state without legal moves get_move returns (-1,-1) and
\* has called neither time_left, nor score, nor forecast_move, nor a search.
C4_NoMoveWithoutSearch ==
    (Returned /\ RootMoves = <<>>) =>
        (result = NoMove /\ log = <<>> /\ clock = 0)

C4_Witness ==
    Returned /\ RootMoves = <<>> /\ result = NoMove /\ plies > 0

\* C5: when the first time_left() call of a get_move answers below the
\* threshold, get_move returns the first legal move.
C5_FirstCheckBelowGivesFirstMove ==
    (Returned /\ RootMoves # <<>> /\ FirstCheckBelow) =>
        result = RootMoves[1]

C5_Witness ==
    /\ Returned /\ Len(RootMoves) >= 2 /\ FirstCheckBelow
    /\ result = RootMoves[1]
    /\ player.kind = "MinimaxPlayer"

\* C6: with exactly one legal move and at least one search completed,
\* get_move returns that move.
C6_SingleMoveReturned ==
    (Returned /\ Len(RootMoves) = 1 /\ CompletedDepth >= 1) =>
        result = RootMoves[1]

\* C7: the move of a completed search is the earliest root move, in
\* legal-move order, among those of maximal backed-up value.
C7_FirstEncounteredTie ==
    (Returned /\ RootMoves # <<>> /\ CompletedDepth >= 1) =>
        result = FirstMaximal(CompletedDepth)

\* C8: a node calls time_left before it scores its state or forecasts a
\* child, and a time_left answer below the threshold inside a search is the
\* last call the get_move makes: SearchTimeout reaches get_move, which
\* returns.
C8_CheckFirstAndUnwind ==
    /\ \A i \in 1 .. Len(log) :
          (log[i].ev = "score"
             \/ (log[i].ev = "forecast" /\ log[i].at # <<>>)) =>
            \E j \in 1 .. i - 1 :
                /\ log[j].ev = "time"
                /\ log[j].at = log[i].at
                /\ log[j].layer = log[i].layer
                /\ \A k \in j .. i - 1 : log[k].ev # "layer"
    /\ \A i \in 1 .. Len(log) :
          (log[i].ev = "time" /\ log[i].t < TIMER_THRESHOLD) =>
            (i = Len(log) /\ raised /\ Returned)
    /\ raised =>
          (Returned /\ log # <<>> /\ log[Len(log)].ev = "time"
             /\ log[Len(log)].t < TIMER_THRESHOLD)

\* a timeout two plies below the root, after a state has been scored
C8_Witness ==
    /\ Returned /\ raised
    /\ Len(log[Len(log)].at) >= 2
    /\ \E i \in 1 .. Len(log) : log[i].ev = "score"

\* C9: in the late-game branch of custom_score, longestPath returns the
\* greatest path length of its exploration and the score is the difference
\* of the two players' longest paths.
C9_LongestPathScore ==
    \A p \in {1, 2} :
        (~is_loser(board, p) /\ ~is_winner(board, p)
           /\ Cardinality(get_blank_spaces(board)) < LateGameBlanks) =>
            /\ longestPath(p, board, 0, 0) = DeepestPath(p, board)
            /\ custom_score(board, p)
                 = DeepestPath(p, board)
                     - DeepestPath(get_opponent(p), board)

\* the time budget is non-increasing and eventually at or below the threshold
Expires(tl) == tl.tail < TIMER_THRESHOLD

\* the number of log entries of kind ev
Count(ev) == Cardinality({i \in 1 .. Len(log) : log[i].ev = ev})

\* a time_left() answer that ends get_move's loop: at the loop head one at
\* or below the threshold, inside a node one below it
Expiry(e) ==
    \/ e.ev = "head" /\ e.t <= TIMER_THRESHOLD
    \/ e.ev = "time" /\ e.t < TIMER_THRESHOLD

\* C10: AlphaBetaPlayer.get_move returns whenever the time budget is
\* non-increasing and eventually at or below the threshold.  Its loop has
\* no other exit: while it runs no time_left() answer has ended it and each
\* pass has started one layer, one deeper than the last; and when get_move
\* has returned from the loop, the answer that ended it is the last call it
\* made and the first such answer.
C10_TerminatesOnlyOnTime ==
    /\ (pc = "loop" /\ Expires(time_left)) ~> Returned
    /\ [](pc = "loop" =>
            /\ \A i \in 1 .. Len(log) : ~Expiry(log[i])
            /\ Count("layer") = search_depth - 1
            /\ Count("head") = search_depth - 1
            /\ \A d \in 1 .. search_depth - 1 :
                  \E i \in 1 .. Len(log) :
                      log[i].ev = "layer" /\ log[i].layer = d)
    /\ []((Returned /\ RootMoves # <<>>) =>
            /\ log # <<>>
            /\ \A i \in 1 .. Len(log) : Expiry(log[i]) <=> i = Len(log))

\* get_move has returned from its loop at a depth beyond the game tree
C10_Witness ==
    /\ Returned /\ player.kind = "AlphaBetaPlayer" /\ Expires(time_left)
    /\ search_depth >= 3
    /\ CompletedAlphaBeta(search_depth - 1) = CompletedAlphaBeta(search_depth)

====
